---- MODULE Spec2Model ----
(***************************************************************************)
(* IoT telemetry platform: the ingestion pipeline of                       *)
(* src/src/processing/stream_processor.py (StreamProcessor.process_stream  *)
(* and process_batch) with the parser of src/src/models.py, the validator  *)
(* of src/src/quality/validator.py, the dead letter queue of               *)
(* src/src/ingestion/kafka_simulator.py and the two storage handlers of    *)
(* src/src/storage/database.py and src/src/storage/data_lake.py.           *)
(*                                                                         *)
(* Times are whole minutes.  An optional value (Python None or a value) is *)
(* a set with at most one element.                                         *)
(*                                                                         *)
(* Spec is process_stream over the batches of a data file, SpecFair the    *)
(* same with the run going on until process_stream returns; SpecPayload is *)
(* process_stream over one batch of a varied payload and a good record;    *)
(* SpecRecord takes one varied payload through parse_telemetry_event,      *)
(* validate_event and write_telemetry_batch, each called on its own;       *)
(* SpecBatch is validate_batch on one list of events; SpecWrite is         *)
(* write_telemetry_batch on one list of events of several days.            *)
(***************************************************************************)
EXTENDS Integers, Sequences, FiniteSets, TLC

\* ------------------------------------------------------------ bounds

\* The most lines in the data file the batch source reads.
MaxRecords == 3

\* The most keys in which a payload differs from RawGood.
MaxChanged == 2

\* The most events in a list given to validate_batch.
MaxEvents == 20

\* ------------------------------------------------- program constants

temperature_min == -50
temperature_max == 100
humidity_min == 0
humidity_max == 100
pressure_min == 800
pressure_max == 1200
battery_min == 0
battery_max == 100
lat_min == -90
lat_max == 90
lon_min == -180
lon_max == 180

\* timedelta(minutes=5)
FutureToleranceMinutes == 5

\* timedelta(days=30), in minutes
StaleMinutes == 30 * 24 * 60

\* One day, in minutes.
DayMinutes == 24 * 60

\* datetime.utcnow() as read by the validator during the run.
UtcNow == 100000

\* -------------------------------------------------------- raw payloads

None == {}

Some(v) == {v}

Val(opt) == CHOOSE v \in opt : TRUE

\* A timestamp text: form "naive" (no zone), "Z" (trailing Z), "offset"
\* (explicit +hh:mm, off minutes east of UTC), or "bad" (not ISO-8601).
\* wall is the wall-clock reading of the text, in minutes.
Timestamp(form, wall, off) == [form |-> form, wall |-> wall, off |-> off]

\* A raw record: json_ok is whether json.loads accepts the text; the other
\* fields are the keys of the decoded object (an absent key is None).
Raw(json_ok, timestamp, device_id, temperature, humidity, pressure, battery_level, has_location, lat, lon) ==
    [json_ok |-> json_ok, timestamp |-> timestamp, device_id |-> device_id,
     temperature |-> temperature, humidity |-> humidity, pressure |-> pressure,
     battery_level |-> battery_level, has_location |-> has_location,
     lat |-> lat, lon |-> lon]

\* A version 1 payload with the given timestamp and temperature.
RawV1(ts, temp) ==
    Raw(TRUE, Some(ts), Some("device_001"), Some(temp), Some(60), Some(1013), Some(85), FALSE, None, None)

RawGood == RawV1(Timestamp("naive", UtcNow - 1, 0), 25)

RawOld == RawV1(Timestamp("naive", UtcNow - StaleMinutes - DayMinutes, 0), 25)

RawHot == RawV1(Timestamp("naive", UtcNow - 1, 0), 150)

RawZulu == RawV1(Timestamp("Z", UtcNow - 1, 0), 25)

RawMalformed == Raw(FALSE, None, None, None, None, None, None, FALSE, None, None)

\* The payloads the batch source is made of.
RawRecords == {RawGood, RawOld, RawHot, RawZulu, RawMalformed}

\* Timestamp texts: zone-less ones around the two limits of the validator
\* and a stale one, one with a trailing Z, one with an explicit offset of
\* +02:00 read one hour after local midnight (so the UTC date is the day
\* before), and one that is not ISO-8601.
Timestamps ==
    {Timestamp("naive", UtcNow - 1, 0),
     Timestamp("naive", UtcNow + FutureToleranceMinutes, 0),
     Timestamp("naive", UtcNow + FutureToleranceMinutes + 1, 0),
     Timestamp("naive", UtcNow - StaleMinutes, 0),
     Timestamp("naive", UtcNow - StaleMinutes - 1, 0),
     Timestamp("naive", UtcNow - StaleMinutes - DayMinutes, 0),
     Timestamp("Z", UtcNow - 1, 0),
     Timestamp("offset", (UtcNow \div DayMinutes) * DayMinutes + 60, 120),
     Timestamp("bad", 0, 0)}

\* An optional number: absent, or one of the values.
Optional(values) == {None} \cup {Some(v) : v \in values}

\* The location key: absent; present with null or {}; present with lat,
\* lon or both.
Locations ==
    {[has_location |-> FALSE, lat |-> None, lon |-> None]}
    \cup {[has_location |-> TRUE, lat |-> lat, lon |-> lon] :
             lat \in Optional({lat_min - 1, lat_min, 40, lat_max, lat_max + 1}),
             lon \in Optional({lon_min - 1, lon_min, -74, lon_max, lon_max + 1})}

\* One key of the payload set to one value (or the text made no JSON).
Changes ==
    {<<"json_ok", FALSE>>}
    \cup {<<"timestamp", t>> : t \in Optional(Timestamps)}
    \cup {<<"device_id", d>> : d \in Optional({"", "device_001"})}
    \cup {<<"temperature", v>> :
             v \in Optional({temperature_min - 1, temperature_min, temperature_max, temperature_max + 1})}
    \cup {<<"humidity", v>> :
             v \in Optional({humidity_min - 1, humidity_min, humidity_max, humidity_max + 1})}
    \cup {<<"pressure", v>> :
             v \in Optional({pressure_min - 1, pressure_min, pressure_max, pressure_max + 1})}
    \cup {<<"battery_level", v>> :
             v \in Optional({battery_min - 1, battery_min, battery_max, battery_max + 1})}
    \cup {<<"location", l>> : l \in Locations}

Change(raw, c) ==
    IF c[1] = "location"
    THEN [raw EXCEPT !.has_location = c[2].has_location, !.lat = c[2].lat, !.lon = c[2].lon]
    ELSE [raw EXCEPT ![c[1]] = c[2]]

RECURSIVE Changed(_)
\* RawGood with at most n keys changed.
Changed(n) ==
    IF n = 0 THEN {RawGood}
    ELSE {Change(raw, c) : raw \in Changed(n - 1), c \in Changes}

Payloads == Changed(MaxChanged)

\* ------------------------------------------------------------- parser

\* ProcessedTelemetryEvent.parse_datetime: a trailing Z becomes +00:00 and
\* datetime.fromisoformat yields an aware datetime; an explicit offset
\* yields an aware datetime; a zone-less text yields a naive one.
parse_datetime(ts) ==
    IF ts.form = "Z" THEN [ok |-> TRUE, wall |-> ts.wall, off |-> 0, aware |-> TRUE]
    ELSE IF ts.form = "offset" THEN [ok |-> TRUE, wall |-> ts.wall, off |-> ts.off, aware |-> TRUE]
    ELSE IF ts.form = "naive" THEN [ok |-> TRUE, wall |-> ts.wall, off |-> 0, aware |-> FALSE]
    ELSE [ok |-> FALSE, wall |-> 0, off |-> 0, aware |-> FALSE]

NoTime == [wall |-> 0, off |-> 0, aware |-> FALSE]

NoEvent ==
    [time |-> NoTime, device_id |-> "", temperature |-> None, humidity |-> None,
     pressure |-> None, battery_level |-> None, location_lat |-> None,
     location_lon |-> None, schema_version |-> 0]

\* A parser that would return an empty event where it has to fail.
ParseDefault(text) ==
    [ok |-> TRUE, event |-> NoEvent, error |-> ""]

\* raise ValueError(f"Failed to parse telemetry event: {e}") (line 101).
ParseError(text) ==
    [ok |-> FALSE, event |-> NoEvent, error |-> "Failed to parse telemetry event: " \o text]

\* A parser that would report version 1 for every payload.
SchemaVersionOne(has_location) == 1

\* schema_version = 2 if has_location else 1 (line 80).
SchemaVersion(has_location) == IF has_location THEN 2 ELSE 1

\* parse_telemetry_event: the processed event, or ValueError with the text
\* of the underlying exception.
parse_telemetry_event(raw) ==
    IF ~raw.json_ok THEN ParseError("Expecting value: line 1 column 1 (char 0)")
    ELSE IF raw.timestamp = None THEN ParseError("'timestamp'")
    ELSE IF raw.device_id = None THEN ParseError("'device_id'")
    ELSE IF ~parse_datetime(Val(raw.timestamp)).ok THEN ParseError("1 validation error for ProcessedTelemetryEvent")
    ELSE LET t == parse_datetime(Val(raw.timestamp))
             has_location == raw.has_location
             copy == has_location /\ (raw.lat # None \/ raw.lon # None)
         IN [ok |-> TRUE,
             event |-> [time |-> [wall |-> t.wall, off |-> t.off, aware |-> t.aware],
                        device_id |-> Val(raw.device_id),
                        temperature |-> raw.temperature,
                        humidity |-> raw.humidity,
                        pressure |-> raw.pressure,
                        battery_level |-> raw.battery_level,
                        location_lat |-> IF copy THEN raw.lat ELSE None,
                        location_lon |-> IF copy THEN raw.lon ELSE None,
                        schema_version |-> SchemaVersion(has_location)],
             error |-> ""]

\* ---------------------------------------------------------- validator

RECURSIVE Join(_)
\* "; ".join(texts)
Join(texts) ==
    IF Len(texts) = 0 THEN ""
    ELSE IF Len(texts) = 1 THEN texts[1]
    ELSE texts[1] \o "; " \o Join(Tail(texts))

InRange(lo, v, hi) == lo <= v /\ v <= hi

\* str() of a float field in an f-string: the fields are floats after
\* pydantic's coercion, and the values here are whole numbers.
FloatText(v) == ToString(v) \o ".0"

\* The error a range rule appends for an optional field, if any.
RangeError(name, opt, lo, hi) ==
    IF opt # None /\ ~InRange(lo, Val(opt), hi)
    THEN <<name \o " " \o FloatText(Val(opt)) \o " out of valid range">>
    ELSE <<>>

LocationError(name, opt, lo, hi) ==
    IF opt # None /\ ~InRange(lo, Val(opt), hi)
    THEN <<"Invalid " \o name \o " " \o FloatText(Val(opt))>>
    ELSE <<>>

\* The comparison of event.time with the naive datetime.utcnow() raises
\* TypeError when event.time is aware.
TypeErrorText == "can't compare offset-naive and offset-aware datetimes"

validate_errors(event, now) ==
    (IF event.device_id = "" THEN <<"Missing device_id">> ELSE <<>>)
    \o (IF event.time.wall > now + FutureToleranceMinutes
        THEN <<"Timestamp is too far in the future">> ELSE <<>>)
    \o RangeError("Temperature", event.temperature, temperature_min, temperature_max)
    \o RangeError("Humidity", event.humidity, humidity_min, humidity_max)
    \o RangeError("Pressure", event.pressure, pressure_min, pressure_max)
    \o RangeError("Battery level", event.battery_level, battery_min, battery_max)
    \o LocationError("latitude", event.location_lat, lat_min, lat_max)
    \o LocationError("longitude", event.location_lon, lon_min, lon_max)

validate_warnings(event, now) ==
    IF ~(event.time.wall > now + FutureToleranceMinutes) /\ event.time.wall < now - StaleMinutes
    THEN <<"Timestamp is older than 30 days">> ELSE <<>>

\* DataQualityValidator.validate_event at wall-clock time now: the result,
\* or raised = TRUE with the text of the exception.
validate_event(event, now) ==
    IF event.time.aware
    THEN [raised |-> TRUE, status |-> "", message |-> TypeErrorText, error_count |-> 0,
          errors |-> <<>>, warnings |-> <<>>]
    ELSE LET errors == validate_errors(event, now)
             warnings == validate_warnings(event, now)
         IN [raised |-> FALSE,
             status |-> IF errors # <<>> THEN "FAIL" ELSE IF warnings # <<>> THEN "WARNING" ELSE "PASS",
             message |-> IF errors # <<>> THEN Join(errors)
                         ELSE IF warnings # <<>> THEN Join(warnings)
                         ELSE "All validations passed",
             error_count |-> Len(errors),
             errors |-> errors, warnings |-> warnings]

\* if result.status == "FAIL" (line 94): the events validate_batch counts.
CountsAsError(result) == result.status = "FAIL"

\* error_rate > 0.1, > 0.05 (lines 103, 106): the rate is the quotient
\* rate[1] / rate[2], the literal is num / den.
Exceeds(rate, num, den) == rate[1] * den > num * rate[2]

\* DataQualityValidator.validate_batch at wall-clock time now: the result,
\* or raised = TRUE with the text of the exception validate_event raised
\* for one of the events (line 93 is in no try).  device_errors has a key
\* for each device with a counted event.  The message text is left out.
validate_batch(events, now) ==
    LET result == [i \in 1..Len(events) |-> validate_event(events[i], now)]
        counted == {i \in 1..Len(events) : CountsAsError(result[i])}
        total_errors == Cardinality(counted)
        device_errors ==
            [device_id \in {events[i].device_id : i \in counted} |->
                Cardinality({i \in counted : events[i].device_id = device_id})]
        error_rate == IF events # <<>> THEN <<total_errors, Len(events)>> ELSE <<0, 1>>
    IN IF \E i \in 1..Len(events) : result[i].raised
       THEN [raised |-> TRUE, error |-> TypeErrorText, status |-> "", record_count |-> 0,
             error_count |-> 0, error_rate |-> <<0, 1>>, device_errors |-> <<>>]
       ELSE [raised |-> FALSE, error |-> "",
             status |-> IF Exceeds(error_rate, 1, 10) THEN "FAIL"
                        ELSE IF Exceeds(error_rate, 5, 100) THEN "WARNING"
                        ELSE "PASS",
             record_count |-> Len(events),
             error_count |-> total_errors,
             error_rate |-> error_rate,
             device_errors |-> device_errors]

\* ------------------------------------------------------ storage sinks

RECURSIVE SortSet(_)
\* The elements of a finite set of integers, ascending.
SortSet(S) ==
    IF S = {} THEN <<>>
    ELSE LET m == CHOOSE x \in S : \A y \in S : x <= y
         IN <<m>> \o SortSet(S \ {m})

\* The calendar day pandas reads from the time column of an event.
PartitionDay(event) == event.time.wall \div DayMinutes

RECURSIVE RowsOfDay(_, _)
\* The rows of a list whose partition day is day, in list order.
RowsOfDay(rows, day) ==
    IF rows = <<>> THEN <<>>
    ELSE (IF PartitionDay(rows[1].event) = day THEN <<rows[1]>> ELSE <<>>)
         \o RowsOfDay(Tail(rows), day)

\* df.groupby(['year', 'month', 'day']): the partition keys, ascending.
PartitionKeys(rows) == SortSet({PartitionDay(rows[i].event) : i \in 1..Len(rows)})

\* The files one write_telemetry_batch call writes when the first n of its
\* partition groups are written: one file per group, holding its rows, in
\* the directory of the group's day and named after the second of the
\* write (telemetry_<%Y%m%d_%H%M%S>.parquet).
PartitionFiles(name, rows, n) ==
    LET keys == PartitionKeys(rows)
    IN [k \in 1..n |-> [name |-> name, day |-> keys[k], rows |-> RowsOfDay(rows, keys[k])]]

RECURSIVE WriteTable(_, _)
\* pq.write_table for each new file in turn: a file already at the same
\* path (same directory, same name) is replaced, any other file stays.
WriteTable(files, new) ==
    IF new = <<>> THEN files
    ELSE LET kept == SelectSeq(files, LAMBDA f : ~(f.day = new[1].day /\ f.name = new[1].name))
         IN WriteTable(Append(kept, new[1]), Tail(new))

\* ------------------------------------------------------------ pipeline

VARIABLES
    source,            \* the batches the event generator yields, in order
    max_batches,       \* the limit argument: [some |-> FALSE] is None
    pc,                \* where process_stream is; "done" once it is over
                       \* (it has logged its final report, lines 84-85)
    taken,             \* batches taken from the generator so far
    idx,               \* position in the batch of the record in hand
    processed_events,  \* process_batch: the accepted events of the batch
    failed_count,      \* process_batch: rejected records of the batch
    pending,           \* the dead letter append about to be made
    batch_count,       \* process_stream counters
    total_success,
    total_failed,
    dlq,               \* the lines of data/dead_letter_queue.jsonl
    telemetry,         \* the rows of the telemetry table
    lake_files,        \* the files of the data lake
    db_calls,          \* every insert_telemetry_batch call and its result
    lake_calls,        \* every write_telemetry_batch call and its result
    results,           \* what process_batch returned, batch by batch
    interrupted,       \* KeyboardInterrupt was caught by process_stream
    stream_error,      \* the exception process_stream logged, "" if none
    raised,            \* the exception that left process_stream, "" if none
    raw_data,          \* one payload taken through the functions alone
    step,              \* which function is called on it next
    parsed,            \* what parse_telemetry_event made of it
    validation,        \* what validate_event made of the parsed event
    written,           \* the files write_telemetry_batch wrote for it
    events,            \* a list of events given to validate_batch or to
                       \* write_telemetry_batch on its own
    batch_validation   \* what validate_batch made of the list

vars ==
    <<source, max_batches, pc, taken, idx, processed_events, failed_count,
      pending, batch_count, total_success, total_failed, dlq, telemetry,
      lake_files, db_calls, lake_calls, results, interrupted, stream_error,
      raised, raw_data, step, parsed, validation, written, events,
      batch_validation>>

\* The variables of the single payload and of the single list of events.
record_vars == <<raw_data, step, parsed, validation, written, events, batch_validation>>

\* The non-blank lines of the data file.
Lines == UNION {[1..n -> RawRecords] : n \in 0..MaxRecords}

RECURSIVE consume_events(_, _)
\* KafkaSimulator.consume_events reading a data file: the lines in lists
\* of batch_size, the last list shorter when lines remain, never empty.
consume_events(lines, batch_size) ==
    IF lines = <<>> THEN <<>>
    ELSE IF Len(lines) <= batch_size THEN <<lines>>
    ELSE <<SubSeq(lines, 1, batch_size)>>
         \o consume_events(SubSeq(lines, batch_size + 1, Len(lines)), batch_size)

Sources == {consume_events(lines, batch_size) : lines \in Lines, batch_size \in 1..MaxRecords}

NoLimit == [some |-> FALSE, val |-> 0]

Limit(n) == [some |-> TRUE, val |-> n]

\* Python truth of the max_batches argument: None and 0 are false.
Truthy(m) == m.some /\ m.val # 0

NoPending == [error |-> "", in_try |-> FALSE]

\* str(e) of the OSError a failed append raises.
IOErrorText == "[Errno 28] No space left on device"

\* str(e) of an exception the generator raises while reading.
SourceErrorText == "[Errno 5] Input/output error"

\* The dead letter file an earlier run has left: one line, written for a
\* record that is not of this run's source (batch 0).
EarlierLines ==
    <<[event |-> RawHot, error |-> "Temperature 150.0 out of valid range", batch |-> 0, pos |-> 0]>>

\* Nothing parsed, validated or written yet.
NoParse == [ok |-> FALSE, event |-> NoEvent, error |-> ""]

NoValidation ==
    [raised |-> FALSE, status |-> "", message |-> "", error_count |-> 0,
     errors |-> <<>>, warnings |-> <<>>]

NoWrite == [ok |-> FALSE, files |-> <<>>]

NoBatchValidation ==
    [raised |-> FALSE, error |-> "", status |-> "", record_count |-> 0,
     error_count |-> 0, error_rate |-> <<0, 1>>, device_errors |-> <<>>]

Init ==
    /\ source \in Sources
    /\ max_batches \in {NoLimit} \cup {Limit(n) : n \in 0..MaxRecords}
    /\ pc = "next"
    /\ raised = ""
    /\ raw_data = RawGood
    /\ step = "off"
    /\ parsed = NoParse
    /\ validation = NoValidation
    /\ written = NoWrite
    /\ events = <<>>
    /\ batch_validation = NoBatchValidation
    /\ taken = 0
    /\ idx = 0
    /\ processed_events = <<>>
    /\ failed_count = 0
    /\ pending = NoPending
    /\ batch_count = 0
    /\ total_success = 0
    /\ total_failed = 0
    /\ dlq \in {<<>>, EarlierLines}
    /\ telemetry = <<>>
    /\ lake_files = <<>>
    /\ db_calls = <<>>
    /\ lake_calls = <<>>
    /\ results = <<>>
    /\ interrupted = FALSE
    /\ stream_error = ""

\* The batch in flight and the record in hand.
Batch == source[taken]

RawEvent == Batch[idx]

\* DeadLetterQueue.get_failed_events on a file with the given lines: no
\* file (nothing was ever appended) gives the empty list, otherwise each
\* line is decoded to the record add_failed_event encoded.
get_failed_events(lines) ==
    IF lines = <<>> THEN <<>>
    ELSE [k \in 1..Len(lines) |-> [event |-> lines[k].event, error |-> lines[k].error]]

\* A handler that would catch the parser's ValueError and OSError only.
ExceptValueError(kind) == kind \in {"ValueError", "OSError"}

\* except Exception (process_batch line 42, process_stream line 81): the
\* exceptions it catches.  KeyboardInterrupt is a BaseException only.
ExceptException(kind) == kind \in {"ValueError", "TypeError", "OSError"}

\* A list that would be kept from one batch to the next.
CarriedEvents == processed_events

\* processed_events = [] at the start of process_batch (line 24).
InitialEvents == <<>>

\* An exception reaches the handlers of process_stream (lines 79-82):
\* except Exception logs it and the final report follows (lines 84-85);
\* nothing is raised again, process_stream returns None.
ExceptInStream(kind, text) ==
    /\ stream_error' = IF ExceptException(kind) THEN text ELSE stream_error
    /\ raised' = IF ExceptException(kind) THEN "" ELSE text
    /\ pc' = "done"

\* for batch in event_generator: the generator yields its next batch and
\* process_batch starts on it (lines 24-25).
NextBatch ==
    /\ pc = "next"
    /\ taken < Len(source)
    /\ taken' = taken + 1
    /\ idx' = 1
    /\ processed_events' = InitialEvents
    /\ failed_count' = 0
    /\ pc' = "record"
    /\ UNCHANGED <<record_vars, raised, source, max_batches, pending, batch_count, total_success,
                   total_failed, dlq, telemetry, lake_files, db_calls,
                   lake_calls, results, interrupted, stream_error>>

\* The generator is exhausted: the for loop ends and the final report of
\* lines 84-85 is logged.
SourceExhausted ==
    /\ pc = "next"
    /\ taken = Len(source)
    /\ pc' = "done"
    /\ UNCHANGED <<record_vars, raised, source, max_batches, taken, idx, processed_events,
                   failed_count, pending, batch_count, total_success,
                   total_failed, dlq, telemetry, lake_files, db_calls,
                   lake_calls, results, interrupted, stream_error>>

\* The generator raises while reading: except Exception of process_stream
\* (lines 81-82) logs it, the final report is logged and process_stream
\* returns.
SourceError ==
    /\ pc = "next"
    /\ ExceptInStream("OSError", SourceErrorText)
    /\ UNCHANGED <<record_vars, source, max_batches, taken, idx, processed_events,
                   failed_count, pending, batch_count, total_success,
                   total_failed, dlq, telemetry, lake_files, db_calls,
                   lake_calls, results, interrupted>>

\* A process_batch that would go to the stores as soon as an event is
\* accepted.
AfterRecordStoringAtOnce(accepted) ==
    IF accepted # <<>> THEN "db"
    ELSE IF idx < Len(Batch) THEN "record"
    ELSE "ret"

\* A process_batch that would call the stores with an empty list too.
AfterRecordAlwaysStores(accepted) ==
    IF idx < Len(Batch) THEN "record" ELSE "db"

\* A process_batch that would skip the stores when more than 10% of the
\* records of the batch were rejected.
AfterRecordUnlessHighRate(accepted) ==
    IF idx < Len(Batch) THEN "record"
    ELSE IF accepted # <<>> /\ 10 * (Len(Batch) - Len(accepted)) <= Len(Batch) THEN "db"
    ELSE "ret"

\* Where process_batch goes after the record in hand, given the accepted
\* list: the next record of the for loop (line 27), or past the loop to
\* the stores if the list is not empty (line 48).
AfterRecord(accepted) ==
    IF idx < Len(Batch) THEN "record"
    ELSE IF accepted # <<>> THEN "db"
    ELSE "ret"

\* A test that would reject only status FAIL.
AcceptsUnlessFail(validation_result) == validation_result.status # "FAIL"

\* The test of line 35.
Accepts(validation_result) == validation_result.status = "PASS"

\* An exception of the given kind raised inside the try of lines 28-40:
\* line 42 catches it and line 44 is the next dead letter append; what
\* line 42 does not catch leaves process_batch, and process_stream logs it
\* and ends.
RaiseInTry(kind, text) ==
    IF ExceptException(kind)
    THEN /\ pending' = [error |-> text, in_try |-> FALSE]
         /\ pc' = "dlq"
         /\ UNCHANGED <<stream_error, raised>>
    ELSE /\ ExceptInStream(kind, text)
         /\ UNCHANGED pending

\* parse_telemetry_event and validate_event for the payloads of the data
\* file, worked out once.
Parsed == [raw \in RawRecords |-> parse_telemetry_event(raw)]

Validated == [raw \in RawRecords |-> validate_event(Parsed[raw].event, UtcNow)]

\* event = parse_telemetry_event(raw_event) (line 30).
ParsedEvent(raw) ==
    IF raw \in RawRecords THEN Parsed[raw] ELSE parse_telemetry_event(raw)

\* validation_result = self.validator.validate_event(event) (line 33), at
\* wall-clock time UtcNow.
ValidationResult(raw) ==
    IF raw \in RawRecords THEN Validated[raw]
    ELSE validate_event(parse_telemetry_event(raw).event, UtcNow)

\* Lines 28-38 and 42-43 for the record in hand: parse, validate, and
\* either accept the event or go to the dead letter append of line 39
\* (inside the try) or of line 44 (inside the handler).
ClassifyRecord ==
    /\ pc = "record"
    /\ LET p == ParsedEvent(RawEvent)
           v == ValidationResult(RawEvent)
       IN IF ~p.ok
          THEN /\ RaiseInTry("ValueError", p.error)
               /\ UNCHANGED <<idx, processed_events>>
          ELSE IF v.raised
          THEN /\ RaiseInTry("TypeError", v.message)
               /\ UNCHANGED <<idx, processed_events>>
          ELSE IF Accepts(v)
          THEN /\ processed_events' =
                      Append(processed_events, [batch |-> taken, pos |-> idx, event |-> p.event])
               /\ pc' = AfterRecord(processed_events')
               /\ idx' = IF idx < Len(Batch) THEN idx + 1 ELSE idx
               /\ UNCHANGED <<pending, stream_error, raised>>
          ELSE /\ pending' = [error |-> v.message, in_try |-> TRUE]
               /\ pc' = "dlq"
               /\ UNCHANGED <<idx, processed_events, stream_error, raised>>
    /\ UNCHANGED <<record_vars, source, max_batches, taken, failed_count, batch_count,
                   total_success, total_failed, dlq, telemetry, lake_files,
                   db_calls, lake_calls, results, interrupted>>

\* The line add_failed_event writes: the raw text and the error; batch and
\* pos record which record of the source the line was written for.
failed_record(event, error) ==
    [event |-> event, error |-> error, batch |-> taken, pos |-> idx]

\* An append that would put the new line at the head of the file.
AddFailedEventAtHead ==
    /\ pc = "dlq"
    /\ dlq' = <<failed_record(RawEvent, pending.error)>> \o dlq
    /\ failed_count' = failed_count + 1
    /\ pending' = NoPending
    /\ pc' = AfterRecord(processed_events)
    /\ idx' = IF idx < Len(Batch) THEN idx + 1 ELSE idx
    /\ UNCHANGED <<record_vars, raised, source, max_batches, taken, processed_events, batch_count,
                   total_success, total_failed, telemetry, lake_files,
                   db_calls, lake_calls, results, interrupted, stream_error>>

\* An append that would open the file with mode 'w'.
AddFailedEventTruncating ==
    /\ pc = "dlq"
    /\ dlq' = <<failed_record(RawEvent, pending.error)>>
    /\ failed_count' = failed_count + 1
    /\ pending' = NoPending
    /\ pc' = AfterRecord(processed_events)
    /\ idx' = IF idx < Len(Batch) THEN idx + 1 ELSE idx
    /\ UNCHANGED <<record_vars, raised, source, max_batches, taken, processed_events, batch_count,
                   total_success, total_failed, telemetry, lake_files,
                   db_calls, lake_calls, results, interrupted, stream_error>>

\* DeadLetterQueue.add_failed_event succeeds (line 39 or line 44): the line
\* is appended, the record is counted as failed (line 40 or 45), and the
\* loop goes on.
AddFailedEventOk ==
    /\ pc = "dlq"
    /\ dlq' = Append(dlq, failed_record(RawEvent, pending.error))
    /\ failed_count' = failed_count + 1
    /\ pending' = NoPending
    /\ pc' = AfterRecord(processed_events)
    /\ idx' = IF idx < Len(Batch) THEN idx + 1 ELSE idx
    /\ UNCHANGED <<record_vars, raised, source, max_batches, taken, processed_events, batch_count,
                   total_success, total_failed, telemetry, lake_files,
                   db_calls, lake_calls, results, interrupted, stream_error>>

\* A failed append that would count the record as failed before the
\* second append.
AddFailedEventRaisesCounted ==
    /\ pc = "dlq"
    /\ pending.in_try
    /\ RaiseInTry("OSError", IOErrorText)
    /\ failed_count' = failed_count + 1
    /\ UNCHANGED <<record_vars, source, max_batches, taken, idx, processed_events,
                   batch_count, total_success, total_failed,
                   dlq, telemetry, lake_files, db_calls, lake_calls, results,
                   interrupted>>

\* A failed append that would leave its line in the file all the same.
AddFailedEventRaisesAfterWrite ==
    /\ pc = "dlq"
    /\ pending.in_try
    /\ RaiseInTry("OSError", IOErrorText)
    /\ dlq' = Append(dlq, [event |-> Batch[idx], error |-> pending.error, batch |-> taken, pos |-> idx])
    /\ UNCHANGED <<record_vars, source, max_batches, taken, idx, processed_events,
                   failed_count, batch_count, total_success, total_failed,
                   telemetry, lake_files, db_calls, lake_calls, results,
                   interrupted>>

\* add_failed_event raises OSError at line 39, inside the try, with nothing
\* appended (open or the write failed): the handler of line 42 catches it
\* and line 44 appends again, now with str(e) of the OSError.
AddFailedEventRaisesInTry ==
    /\ pc = "dlq"
    /\ pending.in_try
    /\ RaiseInTry("OSError", IOErrorText)
    /\ UNCHANGED <<record_vars, source, max_batches, taken, idx, processed_events,
                   failed_count, batch_count, total_success, total_failed,
                   dlq, telemetry, lake_files, db_calls, lake_calls, results,
                   interrupted>>

\* add_failed_event raises OSError at line 44, inside the handler: the
\* exception leaves process_batch, except Exception of process_stream
\* (lines 81-82) logs it, the final report is logged and process_stream
\* returns.
AddFailedEventRaisesInHandler ==
    /\ pc = "dlq"
    /\ ~pending.in_try
    /\ ExceptInStream("OSError", IOErrorText)
    /\ UNCHANGED <<record_vars, source, max_batches, taken, idx, processed_events,
                   failed_count, pending, batch_count, total_success,
                   total_failed, dlq, telemetry, lake_files, db_calls,
                   lake_calls, results, interrupted>>

\* A process_batch that would skip the lake after a failed insert.
AfterInsertUnlessFailed(db_success) == IF db_success THEN "lake" ELSE "ret"

\* After insert_telemetry_batch has returned db_success, line 53 follows.
AfterInsert(db_success) == "lake"

\* TimescaleDBHandler.insert_telemetry_batch (line 50): one multi-row
\* insert that appends the whole list or nothing; any exception is caught
\* inside (lines 27-29) and turned into False.
InsertTelemetryBatch ==
    /\ pc = "db"
    /\ \E ok \in BOOLEAN :
         /\ telemetry' = IF ok THEN telemetry \o processed_events ELSE telemetry
         /\ db_calls' = Append(db_calls, [batch |-> taken, events |-> processed_events, ok |-> ok])
         /\ pc' = AfterInsert(ok)
    /\ UNCHANGED <<record_vars, raised, source, max_batches, taken, idx, processed_events,
                   failed_count, pending, batch_count, total_success,
                   total_failed, dlq, lake_files, lake_calls, results,
                   interrupted, stream_error>>

\* A process_batch that would raise on a failed store and end the run.
AfterStoresRaising(db_success, lake_success) ==
    IF db_success /\ lake_success THEN "ret" ELSE "done"

\* Lines 55-61: a failed store is logged and process_batch returns.
AfterStores(db_success, lake_success) == "ret"

\* datetime.utcnow() of line 42, to the second, as the file name it gives:
\* seconds are numbered as files are written in them, and a call is in the
\* second of the file written last or in a later one.
WriteSeconds ==
    IF lake_files = <<>> THEN {1}
    ELSE {lake_files[Len(lake_files)].name, lake_files[Len(lake_files)].name + 1}

\* write_telemetry_batch writes the first n partition groups of the list
\* and, if n is not all of them, fails at the next: the exception is
\* caught inside (lines 56-58) and turned into False, the files written
\* before it stay.
LakeWrite(n, name) ==
    /\ lake_files' = WriteTable(lake_files, PartitionFiles(name, processed_events, n))
    /\ lake_calls' = Append(lake_calls,
           [batch |-> taken, events |-> processed_events,
            ok |-> (n = Len(PartitionKeys(processed_events)))])
    /\ pc' = AfterStores(db_calls[Len(db_calls)].ok, n = Len(PartitionKeys(processed_events)))

RECURSIVE WithoutBatch(_, _)
\* The rows of the table without those of batch b.
WithoutBatch(rows, b) ==
    IF rows = <<>> THEN <<>>
    ELSE (IF rows[1].batch = b THEN <<>> ELSE <<rows[1]>>) \o WithoutBatch(Tail(rows), b)

\* A lake write that would take the rows of the batch out of the table
\* again when it fails.
WriteTelemetryBatchRollingBack ==
    /\ pc = "lake"
    /\ \E n \in 0..Len(PartitionKeys(processed_events)), name \in WriteSeconds :
         /\ LakeWrite(n, name)
         /\ telemetry' = IF n = Len(PartitionKeys(processed_events)) THEN telemetry
                         ELSE WithoutBatch(telemetry, taken)
    /\ UNCHANGED <<record_vars, raised, source, max_batches, taken, idx, processed_events,
                   failed_count, pending, batch_count, total_success,
                   total_failed, dlq, db_calls, results, interrupted,
                   stream_error>>

\* DataLakeHandler.write_telemetry_batch (line 53).
WriteTelemetryBatch ==
    /\ pc = "lake"
    /\ \E n \in 0..Len(PartitionKeys(processed_events)), name \in WriteSeconds :
         LakeWrite(n, name)
    /\ UNCHANGED <<record_vars, raised, source, max_batches, taken, idx, processed_events,
                   failed_count, pending, batch_count, total_success,
                   total_failed, dlq, telemetry, db_calls, results,
                   interrupted, stream_error>>

\* The test of line 76 after batch_count has been incremented.
LimitReached(limit, count) == Truthy(limit) /\ count >= limit.val

\* A loop that would take the next batch from the generator before it
\* tests the limit.
ReturnBatchTakingNext ==
    /\ pc = "ret"
    /\ results' = Append(results, <<Len(processed_events), failed_count>>)
    /\ total_success' = total_success + Len(processed_events)
    /\ total_failed' = total_failed + failed_count
    /\ batch_count' = batch_count + 1
    /\ pc' = IF LimitReached(max_batches, batch_count') THEN "done" ELSE "next"
    /\ taken' = IF LimitReached(max_batches, batch_count') /\ taken < Len(source)
                THEN taken + 1 ELSE taken
    /\ UNCHANGED <<record_vars, raised, source, max_batches, idx, processed_events,
                   failed_count, pending, dlq, telemetry, lake_files,
                   db_calls, lake_calls, interrupted, stream_error>>

\* process_batch returns (lines 58-61) and process_stream adds the batch
\* to its counters and tests the limit (lines 71-77); at the limit the
\* loop ends and the final report is logged.
ReturnBatch ==
    /\ pc = "ret"
    /\ results' = Append(results, <<Len(processed_events), failed_count>>)
    /\ total_success' = total_success + Len(processed_events)
    /\ total_failed' = total_failed + failed_count
    /\ batch_count' = batch_count + 1
    /\ pc' = IF LimitReached(max_batches, batch_count') THEN "done" ELSE "next"
    /\ UNCHANGED <<record_vars, raised, source, max_batches, taken, idx, processed_events,
                   failed_count, pending, dlq, telemetry, lake_files,
                   db_calls, lake_calls, interrupted, stream_error>>

\* The places of process_stream's try block (lines 69-77).
InTry == {"next", "record", "dlq", "db", "lake", "ret"}

\* Ctrl-C while the loop runs: KeyboardInterrupt is no Exception, so
\* neither line 42 nor the storage handlers catch it; it leaves
\* process_batch wherever it is, line 79 catches it, the final report is
\* logged and process_stream returns.
KeyboardInterrupt ==
    /\ pc \in InTry
    /\ ~ExceptException("KeyboardInterrupt")
    /\ interrupted' = TRUE
    /\ pc' = "done"
    /\ UNCHANGED <<record_vars, raised, source, max_batches, taken, idx, processed_events,
                   failed_count, pending, batch_count, total_success,
                   total_failed, dlq, telemetry, lake_files, db_calls,
                   lake_calls, results, stream_error>>

Next ==
    \/ NextBatch
    \/ SourceExhausted
    \/ SourceError
    \/ ClassifyRecord
    \/ AddFailedEventOk
    \/ AddFailedEventRaisesInTry
    \/ AddFailedEventRaisesInHandler
    \/ InsertTelemetryBatch
    \/ WriteTelemetryBatch
    \/ ReturnBatch
    \/ KeyboardInterrupt

Spec == Init /\ [][Next]_vars

\* The interpreter goes on to the next statement as long as there is one:
\* a run does not stop for ever before process_stream has returned.
SpecFair == Init /\ [][Next]_vars /\ WF_vars(Next)

\* ----------------------------------------------- one payload on its own

\* process_stream over a source of one batch: a payload and, after it,
\* a good record.
InitPayload ==
    /\ source \in {<<<<raw, RawGood>>>> : raw \in Payloads}
    /\ max_batches = NoLimit
    /\ pc = "next"
    /\ taken = 0
    /\ idx = 0
    /\ processed_events = <<>>
    /\ failed_count = 0
    /\ pending = NoPending
    /\ batch_count = 0
    /\ total_success = 0
    /\ total_failed = 0
    /\ dlq = <<>>
    /\ telemetry = <<>>
    /\ lake_files = <<>>
    /\ db_calls = <<>>
    /\ lake_calls = <<>>
    /\ results = <<>>
    /\ interrupted = FALSE
    /\ stream_error = ""
    /\ raised = ""
    /\ raw_data = RawGood
    /\ step = "off"
    /\ parsed = NoParse
    /\ validation = NoValidation
    /\ written = NoWrite
    /\ events = <<>>
    /\ batch_validation = NoBatchValidation

SpecPayload == InitPayload /\ [][Next]_vars

\* process_stream is not running; one payload is about to be parsed.
InitRecord ==
    /\ source = <<>>
    /\ max_batches = NoLimit
    /\ pc = "off"
    /\ taken = 0
    /\ idx = 0
    /\ processed_events = <<>>
    /\ failed_count = 0
    /\ pending = NoPending
    /\ batch_count = 0
    /\ total_success = 0
    /\ total_failed = 0
    /\ dlq = <<>>
    /\ telemetry = <<>>
    /\ lake_files = <<>>
    /\ db_calls = <<>>
    /\ lake_calls = <<>>
    /\ results = <<>>
    /\ interrupted = FALSE
    /\ stream_error = ""
    /\ raised = ""
    /\ raw_data \in Payloads
    /\ step = "parse"
    /\ parsed = NoParse
    /\ validation = NoValidation
    /\ written = NoWrite
    /\ events = <<>>
    /\ batch_validation = NoBatchValidation

pipeline_vars ==
    <<source, max_batches, pc, taken, idx, processed_events, failed_count,
      pending, batch_count, total_success, total_failed, dlq, telemetry,
      lake_files, db_calls, lake_calls, results, interrupted, stream_error,
      raised>>

\* parse_telemetry_event(raw_data): the event, or ValueError.
ParseTelemetryEvent ==
    /\ step = "parse"
    /\ parsed' = parse_telemetry_event(raw_data)
    /\ step' = IF parsed'.ok THEN "validate" ELSE "end"
    /\ UNCHANGED <<pipeline_vars, raw_data, validation, written, events, batch_validation>>

\* validate_event(event) on the parsed event, at wall-clock time UtcNow.
ValidateEvent ==
    /\ step = "validate"
    /\ validation' = validate_event(parsed.event, UtcNow)
    /\ step' = "write"
    /\ UNCHANGED <<pipeline_vars, raw_data, parsed, written, events, batch_validation>>

\* write_telemetry_batch([event]) on the parsed event into an empty lake:
\* the one partition group is written, or the write fails and False is
\* returned.
WriteEvent ==
    /\ step = "write"
    /\ LET rows == <<[batch |-> 0, pos |-> 0, event |-> parsed.event]>>
       IN \E n \in 0..Len(PartitionKeys(rows)) :
            written' = [ok |-> n = Len(PartitionKeys(rows)),
                        files |-> WriteTable(<<>>, PartitionFiles(1, rows, n))]
    /\ step' = "end"
    /\ UNCHANGED <<pipeline_vars, raw_data, parsed, validation, events, batch_validation>>

NextRecord ==
    \/ ParseTelemetryEvent
    \/ ValidateEvent
    \/ WriteEvent

SpecRecord == InitRecord /\ [][NextRecord]_vars

\* ------------------------------------------- one list of events on its own

\* Events as parse_telemetry_event makes them: one that passes, one older
\* than 30 days, two out of range from two devices, one with a time in UTC.
EventGood == parse_telemetry_event(RawGood).event

EventOld == parse_telemetry_event(RawOld).event

EventHot == parse_telemetry_event(RawHot).event

EventHotOther == parse_telemetry_event(Change(RawHot, <<"device_id", Some("device_002")>>)).event

EventZulu == parse_telemetry_event(RawZulu).event

\* n times the event e.
Repeat(e, n) == [i \in 1..n |-> e]

Reverse(list) == [i \in 1..Len(list) |-> list[Len(list) + 1 - i]]

\* How many events of each kind a list has: out of range from the first
\* device, from the second (up to 2), older than 30 days (up to 2), with
\* a time in UTC (up to 1), passing; at most MaxEvents in all.
Counts ==
    {c \in (0..MaxEvents) \X (0..2) \X (0..2) \X (0..1) \X (0..MaxEvents) :
        c[1] + c[2] + c[3] + c[4] + c[5] <= MaxEvents}

\* The lists given to validate_batch: the events of each kind in a row,
\* in this order or the reverse.
EventLists ==
    LET list(c) == Repeat(EventHot, c[1]) \o Repeat(EventHotOther, c[2]) \o Repeat(EventOld, c[3])
                   \o Repeat(EventZulu, c[4]) \o Repeat(EventGood, c[5])
    IN {list(c) : c \in Counts} \cup {Reverse(list(c)) : c \in Counts}

\* Nothing else is running; one list is about to be validated.
InitBatch ==
    /\ source = <<>>
    /\ max_batches = NoLimit
    /\ pc = "off"
    /\ taken = 0
    /\ idx = 0
    /\ processed_events = <<>>
    /\ failed_count = 0
    /\ pending = NoPending
    /\ batch_count = 0
    /\ total_success = 0
    /\ total_failed = 0
    /\ dlq = <<>>
    /\ telemetry = <<>>
    /\ lake_files = <<>>
    /\ db_calls = <<>>
    /\ lake_calls = <<>>
    /\ results = <<>>
    /\ interrupted = FALSE
    /\ stream_error = ""
    /\ raised = ""
    /\ raw_data = RawGood
    /\ step = "batch"
    /\ parsed = NoParse
    /\ validation = NoValidation
    /\ written = NoWrite
    /\ events \in EventLists
    /\ batch_validation = NoBatchValidation

\* validate_batch(events) at wall-clock time UtcNow.
ValidateBatch ==
    /\ step = "batch"
    /\ batch_validation' = validate_batch(events, UtcNow)
    /\ step' = "end"
    /\ UNCHANGED <<pipeline_vars, raw_data, parsed, validation, written, events>>

NextBatchValidation == ValidateBatch

SpecBatch == InitBatch /\ [][NextBatchValidation]_vars

\* An event exactly 30 days old, so of another day than EventOld.
EventStale ==
    parse_telemetry_event(RawV1(Timestamp("naive", UtcNow - StaleMinutes, 0), 25)).event

\* The lists given to write_telemetry_batch: up to MaxRecords events of
\* three different days.
WriteLists ==
    UNION {[1..n -> {EventGood, EventHot, EventOld, EventStale}] : n \in 0..MaxRecords}

\* Nothing else is running; one list is about to be written.
InitWrite ==
    /\ source = <<>>
    /\ max_batches = NoLimit
    /\ pc = "off"
    /\ taken = 0
    /\ idx = 0
    /\ processed_events = <<>>
    /\ failed_count = 0
    /\ pending = NoPending
    /\ batch_count = 0
    /\ total_success = 0
    /\ total_failed = 0
    /\ dlq = <<>>
    /\ telemetry = <<>>
    /\ lake_files = <<>>
    /\ db_calls = <<>>
    /\ lake_calls = <<>>
    /\ results = <<>>
    /\ interrupted = FALSE
    /\ stream_error = ""
    /\ raised = ""
    /\ raw_data = RawGood
    /\ step = "write_batch"
    /\ parsed = NoParse
    /\ validation = NoValidation
    /\ written = NoWrite
    /\ events \in WriteLists
    /\ batch_validation = NoBatchValidation

\* write_telemetry_batch(events) into an empty lake: the first n partition
\* groups are written and, if n is not all of them, the next one fails and
\* False is returned (lines 56-58); pos is the place of an event in the
\* list.
WriteBatch ==
    /\ step = "write_batch"
    /\ LET rows == [i \in 1..Len(events) |-> [batch |-> 0, pos |-> i, event |-> events[i]]]
       IN \E n \in 0..Len(PartitionKeys(rows)) :
            written' = [ok |-> n = Len(PartitionKeys(rows)),
                        files |-> WriteTable(<<>>, PartitionFiles(1, rows, n))]
    /\ step' = "end"
    /\ UNCHANGED <<pipeline_vars, raw_data, parsed, validation, events, batch_validation>>

NextWrite == WriteBatch

SpecWrite == InitWrite /\ [][NextWrite]_vars

\* ------------------------------------------------- what the claims use

\* The outcome of parsing and validating one raw record on its own.
StatusTable ==
    [raw \in RawRecords |->
        IF ~Parsed[raw].ok THEN "PARSE_ERROR"
        ELSE IF Validated[raw].raised THEN "RAISED"
        ELSE Validated[raw].status]

StatusOf(raw) ==
    IF raw \in RawRecords THEN StatusTable[raw]
    ELSE IF ~ParsedEvent(raw).ok THEN "PARSE_ERROR"
    ELSE IF ValidationResult(raw).raised THEN "RAISED"
    ELSE ValidationResult(raw).status

\* The text of the exception parsing or validating the record raises.
ExceptionTextOf(raw) ==
    IF ~ParsedEvent(raw).ok THEN ParsedEvent(raw).error ELSE ValidationResult(raw).message

Raises(raw) == StatusOf(raw) \in {"PARSE_ERROR", "RAISED"}

\* Every (batch, position) of the source.
Records == {<<b, j>> \in (1..MaxRecords) \X (1..MaxRecords) : b <= Len(source) /\ j <= Len(source[b])}

\* process_batch has returned for batch b.
Finished(b) == b <= Len(results)

\* The loop of process_batch has left record j of batch b behind.
Passed(b, j) == b < taken \/ (b = taken /\ (j < idx \/ pc \in {"db", "lake", "ret"} \/ Finished(b)))

\* The dead letter lines written for a record, and how many there are.
DlqLines(b, j) == {k \in 1..Len(dlq) : dlq[k].batch = b /\ dlq[k].pos = j}

\* Record j of batch b is in a list of accepted events.
InList(rows, b, j) == \E k \in 1..Len(rows) : rows[k].batch = b /\ rows[k].pos = j

\* How often record j of batch b is in a list of accepted events.
TimesIn(rows, b, j) == Cardinality({k \in 1..Len(rows) : rows[k].batch = b /\ rows[k].pos = j})

\* The calls of a sink made for batch b.
CallsFor(calls, b) == {k \in 1..Len(calls) : calls[k].batch = b}

\* Record j of batch b was handed to a sink in some call.
HandedTo(calls, b, j) == \E k \in 1..Len(calls) : InList(calls[k].events, b, j)

\* Every row of a list is the parsed event of a record of the source
\* whose status is PASS.
OnlyPass(rows) ==
    \A k \in 1..Len(rows) :
        /\ <<rows[k].batch, rows[k].pos>> \in Records
        /\ StatusOf(source[rows[k].batch][rows[k].pos]) = "PASS"
        /\ rows[k].event = ParsedEvent(source[rows[k].batch][rows[k].pos]).event

\* ---------------------------------------------------------------- C1

\* C1: only a record that parsed and whose validate_event status is PASS
\* is in the list of accepted events or in a list passed to either sink;
\* a record with status WARNING or FAIL that process_batch has left behind
\* is in no list passed to a sink and has a dead letter line.
C1_OnlyPassPersisted ==
    /\ OnlyPass(processed_events)
    /\ \A k \in 1..Len(db_calls) : OnlyPass(db_calls[k].events)
    /\ \A k \in 1..Len(lake_calls) : OnlyPass(lake_calls[k].events)
    /\ OnlyPass(telemetry)
    /\ \A r \in Records :
         (Passed(r[1], r[2]) /\ StatusOf(source[r[1]][r[2]]) \in {"WARNING", "FAIL"})
         => /\ DlqLines(r[1], r[2]) # {}
            /\ ~HandedTo(db_calls, r[1], r[2])
            /\ ~HandedTo(lake_calls, r[1], r[2])

\* A batch with an accepted record and a WARNING record has been handed to
\* both sinks, and a FAIL record has been left behind too.
C1_Witness ==
    /\ \E r \in Records :
         /\ StatusOf(source[r[1]][r[2]]) = "WARNING"
         /\ Passed(r[1], r[2])
         /\ CallsFor(db_calls, r[1]) # {}
         /\ CallsFor(lake_calls, r[1]) # {}
    /\ \E r \in Records : StatusOf(source[r[1]][r[2]]) = "FAIL" /\ Passed(r[1], r[2])

\* ---------------------------------------------------------------- C2

\* Record j of finished batch b was routed exactly once: it is once in the
\* one list handed to both sinks and has no dead letter line, or it is in
\* no such list and has exactly one dead letter line.
RoutedOnce(b, j) ==
    LET lines == Cardinality(DlqLines(b, j))
        stored == /\ Cardinality(CallsFor(db_calls, b)) = 1
                  /\ Cardinality(CallsFor(lake_calls, b)) = 1
                  /\ \A k \in CallsFor(db_calls, b) : TimesIn(db_calls[k].events, b, j) = 1
                  /\ \A k \in CallsFor(lake_calls, b) : TimesIn(lake_calls[k].events, b, j) = 1
    IN \/ stored /\ lines = 0
       \/ /\ lines = 1
          /\ ~HandedTo(db_calls, b, j)
          /\ ~HandedTo(lake_calls, b, j)

\* C2: once process_batch has returned for a batch, every record of it
\* has been routed exactly once, whatever the dead letter appends and the
\* sink writes of the batch did.
C2_RoutedExactlyOnce ==
    \A r \in Records : Finished(r[1]) => RoutedOnce(r[1], r[2])

\* A batch has finished in which a dead letter append failed (the line
\* carries the OSError text of the second append) and a sink write failed.
C2_Witness ==
    \E r \in Records :
        /\ Finished(r[1])
        /\ \E k \in DlqLines(r[1], r[2]) : dlq[k].error = IOErrorText
        /\ \E k \in CallsFor(db_calls, r[1]) : ~db_calls[k].ok

\* ---------------------------------------------------------------- C3

\* Every record of every batch taken from the source has been classified
\* and routed, and the batch is in the counters.
BatchesComplete ==
    /\ batch_count = taken
    /\ \A r \in Records :
         r[1] <= taken =>
            \/ DlqLines(r[1], r[2]) # {}
            \/ HandedTo(db_calls, r[1], r[2]) /\ HandedTo(lake_calls, r[1], r[2])

\* C3: when KeyboardInterrupt has ended the run, the batch that was in
\* flight has been finished: no batch is left partly classified.
C3_InterruptFinishesBatch ==
    (interrupted /\ pc = "done") => BatchesComplete

\* ---------------------------------------------------------------- C4

\* The run has stopped with a batch cut short at the record in hand.
CutShort == pc = "done" /\ taken > batch_count

\* C4 as stated: without any interrupt, a record whose parsing or
\* validation raised and which the run has reached has one dead letter
\* line with the exception text, and the run never stops with the batch
\* of such a record cut short.
C4_ExceptionAlwaysDeadLettered ==
    ~interrupted =>
        \A r \in Records :
            (/\ Raises(source[r[1]][r[2]])
             /\ (Passed(r[1], r[2]) \/ (r[1] = taken /\ r[2] <= idx /\ pc = "done")))
            => /\ \E k \in DlqLines(r[1], r[2]) : dlq[k].error = ExceptionTextOf(source[r[1]][r[2]])
               /\ ~CutShort

\* C4 as amended: the exception of a parse or validation never leaves
\* process_batch (what process_stream logs is an append or source error);
\* a record whose parsing or validation raised and which the loop has left
\* behind has exactly one dead letter line, with the raw text and the
\* exception text, and is counted as failed; and a run that stops with a
\* batch cut short was interrupted or stopped by the OSError of a dead
\* letter append, the record in hand then having no dead letter line.
C4_ExceptionContainedUnlessAppendFails ==
    /\ stream_error \in {"", IOErrorText, SourceErrorText}
    /\ \A r \in Records :
         (Raises(source[r[1]][r[2]]) /\ Passed(r[1], r[2]))
         => /\ Cardinality(DlqLines(r[1], r[2])) = 1
            /\ \A k \in DlqLines(r[1], r[2]) :
                 /\ dlq[k].error = ExceptionTextOf(source[r[1]][r[2]])
                 /\ dlq[k].event = source[r[1]][r[2]]
    /\ (taken > 0 /\ pc \in {"record", "dlq", "db", "lake", "ret"})
         => failed_count = Cardinality({k \in 1..Len(dlq) : dlq[k].batch = taken})
    /\ \A b \in 1..Len(results) :
         results[b][2] = Cardinality({k \in 1..Len(dlq) : dlq[k].batch = b})
    /\ (CutShort /\ ~interrupted)
         => /\ stream_error = IOErrorText
            /\ DlqLines(taken, idx) = {}

\* A batch has finished whose first record raised in parsing or validation
\* and was dead-lettered with the exception text, and whose later record
\* was accepted and handed to the sinks.
C4_Witness ==
    \E b \in 1..Len(results) :
        /\ Len(source[b]) > 1
        /\ Raises(source[b][1])
        /\ \E k \in DlqLines(b, 1) : dlq[k].error = ExceptionTextOf(source[b][1])
        /\ HandedTo(db_calls, b, 2)
        /\ results[b] = <<1, 1>>

\* ---------------------------------------------------------------- C5

\* C5: for every batch, the file store write follows the time store write
\* whatever the time store returned: a batch that has finished with
\* accepted events had exactly one call of each sink; a time store call
\* without its file store call exists only while the file store call is
\* the next step, or when a KeyboardInterrupt stopped the run right there;
\* and no file store call is made without the time store call before it.
C5_BothSinksAttempted ==
    \A b \in 1..taken :
        /\ (Finished(b) /\ results[b][1] > 0)
             => /\ Cardinality(CallsFor(db_calls, b)) = 1
                /\ Cardinality(CallsFor(lake_calls, b)) = 1
        /\ Cardinality(CallsFor(lake_calls, b)) <= Cardinality(CallsFor(db_calls, b))
        /\ Cardinality(CallsFor(lake_calls, b)) < Cardinality(CallsFor(db_calls, b))
             => /\ b = taken
                /\ pc = "lake" \/ (interrupted /\ pc = "done")

\* A batch has finished whose time store write failed and whose file store
\* write was made all the same, and succeeded.
C5_Witness ==
    \E b \in 1..Len(results) :
        /\ \E k \in CallsFor(db_calls, b) : ~db_calls[k].ok
        /\ \E k \in CallsFor(lake_calls, b) : lake_calls[k].ok

\* ---------------------------------------------------------------- C6

RECURSIVE IsSubSeq(_, _)
\* The rows of part are in rows, in the same order.
IsSubSeq(part, rows) ==
    IF part = <<>> THEN TRUE
    ELSE IF rows = <<>> THEN FALSE
    ELSE IF part[1] = rows[1] THEN IsSubSeq(Tail(part), Tail(rows))
    ELSE IsSubSeq(part, Tail(rows))

\* C6: the events of a batch whose time store write returned True are in
\* the telemetry table from then on, in particular when the file store
\* write of the batch has returned False: the pair is then (True, False)
\* and nothing is rolled back.
C6_FailedLakeKeepsTableRows ==
    \A k \in 1..Len(db_calls) :
        db_calls[k].ok
        => /\ IsSubSeq(db_calls[k].events, telemetry)
           /\ \A j \in CallsFor(lake_calls, db_calls[k].batch) :
                ~lake_calls[j].ok =>
                    \A i \in 1..Len(db_calls[k].events) :
                        InList(telemetry, db_calls[k].batch, db_calls[k].events[i].pos)

\* The run has ended after a batch whose time store write returned True
\* and whose file store write returned False.
C6_Witness ==
    /\ pc = "done"
    /\ \E b \in 1..Len(results) :
         /\ \E k \in CallsFor(db_calls, b) : db_calls[k].ok /\ db_calls[k].events # <<>>
         /\ \E j \in CallsFor(lake_calls, b) : ~lake_calls[j].ok

\* ---------------------------------------------------------------- C7

\* C7: each sink is called at most once for a batch, and no event of a
\* call that failed is in the list of any later call of that sink.
NoResubmission(calls) ==
    /\ \A b \in 1..taken : Cardinality(CallsFor(calls, b)) <= 1
    /\ \A k \in 1..Len(calls) :
         ~calls[k].ok =>
            \A later \in (k + 1)..Len(calls) :
                \A i \in 1..Len(calls[k].events) :
                    ~InList(calls[later].events, calls[k].events[i].batch, calls[k].events[i].pos)

C7_NoRetry == NoResubmission(db_calls) /\ NoResubmission(lake_calls)

\* A sink write failed for one batch and the same sink was called again
\* for the next batch.
C7_Witness ==
    /\ Len(db_calls) > 1
    /\ ~db_calls[1].ok
    /\ Len(lake_calls) > 1
    /\ ~lake_calls[1].ok

\* ---------------------------------------------------------------- C8

\* A sink write of batch b returned False.
SinkFailed(b) ==
    \/ \E k \in CallsFor(db_calls, b) : ~db_calls[k].ok
    \/ \E k \in CallsFor(lake_calls, b) : ~lake_calls[k].ok

\* C8: a batch with a failed sink write still returns its counts and is
\* counted, unless a KeyboardInterrupt stopped the run within it; no sink
\* failure is ever the error process_stream logs; and a run that ended
\* without interrupt and without error ended because the source was
\* exhausted or the limit was reached, so the batch after a failed one was
\* taken.
C8_SinkFailureDoesNotStopRun ==
    /\ \A b \in 1..taken :
         SinkFailed(b) =>
            \/ Finished(b) /\ batch_count >= b
            \/ b = taken /\ pc \in {"lake", "ret"}
            \/ b = taken /\ interrupted /\ pc = "done"
    /\ stream_error \in {"", IOErrorText, SourceErrorText}
    /\ (pc = "done" /\ ~interrupted /\ stream_error = "")
         => (taken = Len(source) \/ LimitReached(max_batches, batch_count))

\* Both sinks failed on the first batch and the second batch has been
\* processed and counted after it.
C8_Witness ==
    /\ Len(results) = 2
    /\ batch_count = 2
    /\ \E k \in CallsFor(db_calls, 1) : ~db_calls[k].ok
    /\ \E k \in CallsFor(lake_calls, 1) : ~lake_calls[k].ok

\* ---------------------------------------------------------------- C9

Min(a, b) == IF a < b THEN a ELSE b

\* The run has ended by itself: no interrupt and no logged error.
EndedClean == pc = "done" /\ ~interrupted /\ stream_error = ""

\* C9: with a limit L >= 0 the run never counts more than L batches and,
\* ended by itself, has processed the first min(L, N) batches of the N of
\* the source; with no limit it has processed all N.
C9_LimitBoundsRun ==
    /\ max_batches.some =>
         /\ batch_count <= max_batches.val
         /\ EndedClean => (batch_count = Min(max_batches.val, Len(source)) /\ taken = batch_count)
    /\ (~max_batches.some /\ EndedClean) => (batch_count = Len(source) /\ taken = batch_count)

\* --------------------------------------------------------------- C10

\* The records of a batch with status PASS.
PassCount(batch) == Cardinality({j \in 1..Len(batch) : StatusOf(batch[j]) = "PASS"})

RECURSIVE SumOver(_, _)
\* f[1] + ... + f[n]
SumOver(f, n) == IF n = 0 THEN 0 ELSE f[n] + SumOver(f, n - 1)

\* C10: batch_count is the number of batches process_batch has returned
\* for, total_success the number of PASS records in them, total_failed
\* the number of their other records, the two together the number of
\* their records; process_batch returned for each (PASS records, other
\* records), which add up to the length of the batch; and within a batch
\* the accepted list and failed_count together count the records the
\* loop has left behind.
C10_CountersMatchBatches ==
    LET n == batch_count
        passes == [b \in 1..n |-> PassCount(source[b])]
        others == [b \in 1..n |-> Len(source[b]) - PassCount(source[b])]
        sizes == [b \in 1..n |-> Len(source[b])]
    IN /\ n = Len(results)
       /\ n <= taken
       /\ total_success = SumOver(passes, n)
       /\ total_failed = SumOver(others, n)
       /\ total_success + total_failed = SumOver(sizes, n)
       /\ \A b \in 1..n :
            /\ results[b] = <<passes[b], others[b]>>
            /\ results[b][1] + results[b][2] = Len(source[b])
       /\ (pc \in {"record", "dlq"}) => Len(processed_events) + failed_count = idx - 1
       /\ (pc \in {"db", "lake", "ret"}) => Len(processed_events) + failed_count = Len(Batch)

\* Two batches have been counted, with accepted and rejected records, one
\* of them dead-lettered by the second append after the first one failed.
C10_Witness ==
    /\ batch_count = 2
    /\ total_success > 0
    /\ total_failed > 1
    /\ \E k \in 1..Len(dlq) : dlq[k].error = IOErrorText

\* --------------------------------------------------------------- C11

\* C11: when the source has raised while the next batch was retrieved,
\* process_stream has ended with the counters of the finished batches in
\* its final report and with that error raised to its caller.
C11_SourceErrorSurfaced ==
    (pc = "done" /\ stream_error = SourceErrorText) => raised = SourceErrorText

\* --------------------------------------------------------------- C12

\* The lines of the dead letter file appended by this run.
OwnLines == SelectSeq(dlq, LAMBDA line : line.batch > 0)

\* Line k of the file was written for a record of the source that comes
\* before the record of line m.
Before(k, m) ==
    \/ dlq[k].batch < dlq[m].batch
    \/ dlq[k].batch = dlq[m].batch /\ dlq[k].pos < dlq[m].pos

\* What get_failed_events returns: one entry per line of the file, in
\* the order of the file, the lines of the earlier run first and then
\* one line for each record of the source whose append has returned, in
\* source order, each with the raw text of its record and an error text
\* that is not empty; no entry for an accepted record; an entry for every
\* rejected record the loop has left behind; and the empty list when
\* nothing was ever appended.
FailedEventsListed ==
    LET failed_events == get_failed_events(dlq)
    IN /\ Len(failed_events) = Len(dlq)
       /\ Len(dlq) - Len(OwnLines) \in {0, Len(EarlierLines)}
       /\ \A k \in 1..Len(dlq) :
            /\ failed_events[k].error # ""
            /\ dlq[k].batch = 0 =>
                 /\ k <= Len(EarlierLines)
                 /\ failed_events[k].event = EarlierLines[k].event
                 /\ failed_events[k].error = EarlierLines[k].error
            /\ dlq[k].batch > 0 =>
                 /\ <<dlq[k].batch, dlq[k].pos>> \in Records
                 /\ failed_events[k].event = source[dlq[k].batch][dlq[k].pos]
                 /\ StatusOf(source[dlq[k].batch][dlq[k].pos]) # "PASS"
            /\ \A m \in (k + 1)..Len(dlq) : Before(k, m)
       /\ \A r \in Records :
            (Passed(r[1], r[2]) /\ StatusOf(source[r[1]][r[2]]) # "PASS")
            => DlqLines(r[1], r[2]) # {}
       /\ dlq = <<>> => failed_events = <<>>

\* No step removes or changes a line of the file: the file before the
\* step is the beginning of the file after it.
AppendOnly ==
    /\ Len(dlq') >= Len(dlq)
    /\ SubSeq(dlq', 1, Len(dlq)) = dlq

\* C12: the dead letter log is append-only and get_failed_events returns
\* exactly the appended entries, in the order they were appended, each
\* with the raw text and an error text that is not empty; with no file it
\* returns the empty list.
C12_DeadLetterAppendOnly == []FailedEventsListed /\ [][AppendOnly]_vars

\* After the line of an earlier run, this run has appended the lines of
\* two rejected records of two batches.
C12_Witness ==
    /\ Len(dlq) = 3
    /\ dlq[1].batch = 0
    /\ dlq[2].batch = 1
    /\ dlq[3].batch = 2
    /\ get_failed_events(dlq)[3].event = source[2][dlq[3].pos]

\* --------------------------------------------------------------- C13

\* add_failed_event has raised during the run: at line 44 (the run
\* stopped on it) or at line 39 (the line written after it carries the
\* text of the OSError).
AppendRaised ==
    \/ stream_error = IOErrorText
    \/ \E k \in 1..Len(dlq) : dlq[k].batch > 0 /\ dlq[k].error = IOErrorText

\* C13: when add_failed_event has raised during a run, for a validation
\* rejection or for a parse failure, the run has ended with that error
\* raised to the caller of process_stream.
C13_AppendFailurePropagates ==
    (pc = "done" /\ AppendRaised) => raised = IOErrorText

\* --------------------------------------------------------------- C14

\* C14: every dead letter line written for a record that parsed and
\* whose status is WARNING or FAIL carries the message of the validator,
\* and every line written for a record that failed to parse carries the
\* message of the parser.
C14_EntryCarriesMessage ==
    \A k \in 1..Len(dlq) :
        dlq[k].batch > 0 =>
            LET raw == source[dlq[k].batch][dlq[k].pos]
            IN /\ StatusOf(raw) \in {"WARNING", "FAIL"} => dlq[k].error = ValidationResult(raw).message
               /\ StatusOf(raw) = "PARSE_ERROR" => dlq[k].error = ParsedEvent(raw).error

\* --------------------------------------------------------------- C15

\* The payload is JSON and has the keys timestamp and device_id.
HasRequired(raw) == raw.json_ok /\ raw.timestamp # None /\ raw.device_id # None

\* Record j of batch b failed to parse.
ParseFailed(b, j) == ~ParsedEvent(source[b][j]).ok

\* The loop of process_batch has come to record j of batch b.
Reached(b, j) == b < taken \/ (b = taken /\ j <= idx)

\* Parsing fails for every payload of the source that is no JSON or lacks
\* timestamp or device_id, and a record whose parse failed is in no list
\* of accepted events, in no list handed to a sink, in no row of the
\* table and in no file of the lake.
ParseFailureNeverStored ==
    \A r \in Records :
        /\ ~HasRequired(source[r[1]][r[2]]) => ParseFailed(r[1], r[2])
        /\ ParseFailed(r[1], r[2]) =>
             /\ ~InList(processed_events, r[1], r[2])
             /\ ~HandedTo(db_calls, r[1], r[2])
             /\ ~HandedTo(lake_calls, r[1], r[2])
             /\ ~InList(telemetry, r[1], r[2])
             /\ \A f \in 1..Len(lake_files) : ~InList(lake_files[f].rows, r[1], r[2])

\* C15 as stated: parse failures are never stored, and a run that was
\* not interrupted and has reached a record whose parse failed has gone
\* on through the rest of its batch.
C15_ParseFailureSkipped ==
    /\ ParseFailureNeverStored
    /\ \A r \in Records :
         (ParseFailed(r[1], r[2]) /\ Reached(r[1], r[2]) /\ pc = "done" /\ ~interrupted)
         => Finished(r[1])

\* C15 as amended: parse failures are never stored, a record whose parse
\* failed and which the loop has left behind has its dead letter line,
\* and a run that was not interrupted and has reached such a record has
\* gone on through the rest of its batch unless the OSError of a dead
\* letter append of line 44 stopped it, at that record or a later one.
C15_ParseFailureSkippedUnlessAppendFails ==
    /\ ParseFailureNeverStored
    /\ \A r \in Records :
         /\ (ParseFailed(r[1], r[2]) /\ Passed(r[1], r[2])) => DlqLines(r[1], r[2]) # {}
         /\ (ParseFailed(r[1], r[2]) /\ Reached(r[1], r[2]) /\ pc = "done" /\ ~interrupted)
            => \/ Finished(r[1])
               \/ /\ stream_error = IOErrorText
                  /\ r[1] = taken
                  /\ DlqLines(taken, idx) = {}

\* A payload without device_id failed to parse and was dead-lettered,
\* and the record after it was accepted and handed to both sinks.
C15_Witness ==
    /\ Finished(1)
    /\ source[1][1].json_ok
    /\ source[1][1].device_id = None
    /\ ParseFailed(1, 1)
    /\ DlqLines(1, 1) # {}
    /\ HandedTo(db_calls, 1, 2)
    /\ HandedTo(lake_calls, 1, 2)

\* --------------------------------------------------------------- C16

\* The UTC calendar day of an event time: the wall-clock reading less the
\* offset of its zone (a zone-less time is taken as UTC).
UtcDay(event) == (event.time.wall - event.time.off) \div DayMinutes

\* C16: every event write_telemetry_batch has written is in the
\* partition of the UTC calendar date of its own time, whether the time
\* has a trailing Z, an explicit offset or no zone.
C16_PartitionIsUtcDate ==
    (step = "end" /\ parsed.ok) =>
        \A f \in 1..Len(written.files) :
            \A i \in 1..Len(written.files[f].rows) :
                written.files[f].day = UtcDay(written.files[f].rows[i].event)

\* --------------------------------------------------------------- C17

\* The days of the events of a list.
DaysOf(rows) == {PartitionDay(rows[i].event) : i \in 1..Len(rows)}

\* The successful write_telemetry_batch calls with an event of the day.
CallsOfDay(day) ==
    {k \in 1..Len(lake_calls) : lake_calls[k].ok /\ day \in DaysOf(lake_calls[k].events)}

\* The files of the partition of the day.
FilesOfDay(day) == {f \in 1..Len(lake_files) : lake_files[f].day = day}

\* C17: a partition holds at least one file for each successful call
\* that had an event of its day, and every event of every successful
\* call is still in a file of the lake, whenever the calls were made.
C17_EveryCallAddsFile ==
    \A k \in 1..Len(lake_calls) :
        lake_calls[k].ok =>
            /\ \A day \in DaysOf(lake_calls[k].events) :
                 Cardinality(FilesOfDay(day)) >= Cardinality(CallsOfDay(day))
            /\ \A i \in 1..Len(lake_calls[k].events) :
                 \E f \in 1..Len(lake_files) :
                     InList(lake_files[f].rows, lake_calls[k].events[i].batch, lake_calls[k].events[i].pos)

\* --------------------------------------------------------------- C18

\* C18: a payload that parses yields schema_version 2 exactly when it
\* has a location key, also when the value of the key is empty or null,
\* and schema_version 1 otherwise; a version 1 event has no latitude and
\* no longitude, and a version 2 event has the lat and lon of the
\* payload, a missing one staying unset.
C18_SchemaVersionFromLocationKey ==
    parsed.ok =>
        /\ parsed.event.schema_version = 2 <=> raw_data.has_location
        /\ parsed.event.schema_version = 1 <=> ~raw_data.has_location
        /\ parsed.event.schema_version = 1 =>
             /\ parsed.event.location_lat = None
             /\ parsed.event.location_lon = None
        /\ parsed.event.schema_version = 2 =>
             /\ parsed.event.location_lat = raw_data.lat
             /\ parsed.event.location_lon = raw_data.lon
             /\ raw_data.lat = None => parsed.event.location_lat # Some(0)
             /\ raw_data.lon = None => parsed.event.location_lon # Some(0)

\* A payload whose location key holds null or {} has been parsed: the
\* event has version 2 and neither latitude nor longitude.
C18_Witness ==
    /\ step = "end"
    /\ parsed.ok
    /\ raw_data.has_location
    /\ raw_data.lat = None
    /\ raw_data.lon = None
    /\ parsed.event.schema_version = 2
    /\ parsed.event.location_lat = None

\* --------------------------------------------------------------- C19

\* The payload with its timestamp written without zone, as the same
\* instant in UTC.
ZoneLess(raw) ==
    LET ts == Val(raw.timestamp)
    IN [raw EXCEPT !.timestamp = Some(Timestamp("naive", ts.wall - ts.off, 0))]

\* The timestamp of the payload has a trailing Z or an explicit offset.
Zoned(raw) ==
    /\ raw.json_ok
    /\ raw.timestamp # None
    /\ Val(raw.timestamp).form \in {"Z", "offset"}

\* The payload parses and validate_event returns PASS for it.
Passes(raw) ==
    /\ parse_telemetry_event(raw).ok
    /\ LET validation_result == validate_event(parse_telemetry_event(raw).event, UtcNow)
       IN ~validation_result.raised /\ validation_result.status = "PASS"

\* C19: a record whose timestamp has a trailing Z or an explicit offset
\* and which passes when written without zone passes as it is: once the
\* loop has left it behind it is among the accepted events of its batch
\* and has no dead letter line.
C19_ZonedTimestampAccepted ==
    \A r \in Records :
        (/\ Zoned(source[r[1]][r[2]])
         /\ Passes(ZoneLess(source[r[1]][r[2]]))
         /\ Passed(r[1], r[2]))
        => /\ Passes(source[r[1]][r[2]])
           /\ DlqLines(r[1], r[2]) = {}
           /\ Finished(r[1]) => HandedTo(db_calls, r[1], r[2])

\* --------------------------------------------------------------- C20

\* The rules an event violates at time now, each worked out on its own.
ViolatedRules(event, now) ==
    {rule \in {"device_id", "future", "temperature", "humidity", "pressure",
               "battery_level", "latitude", "longitude"} :
        \/ rule = "device_id" /\ event.device_id = ""
        \/ rule = "future" /\ event.time.wall > now + FutureToleranceMinutes
        \/ /\ rule = "temperature" /\ event.temperature # None
           /\ (Val(event.temperature) < temperature_min \/ Val(event.temperature) > temperature_max)
        \/ /\ rule = "humidity" /\ event.humidity # None
           /\ (Val(event.humidity) < humidity_min \/ Val(event.humidity) > humidity_max)
        \/ /\ rule = "pressure" /\ event.pressure # None
           /\ (Val(event.pressure) < pressure_min \/ Val(event.pressure) > pressure_max)
        \/ /\ rule = "battery_level" /\ event.battery_level # None
           /\ (Val(event.battery_level) < battery_min \/ Val(event.battery_level) > battery_max)
        \/ /\ rule = "latitude" /\ event.location_lat # None
           /\ (Val(event.location_lat) < -90 \/ Val(event.location_lat) > 90)
        \/ /\ rule = "longitude" /\ event.location_lon # None
           /\ (Val(event.location_lon) < -180 \/ Val(event.location_lon) > 180)}

\* How the message names a violated rule.
RuleText(rule, event) ==
    IF rule = "device_id" THEN "Missing device_id"
    ELSE IF rule = "future" THEN "Timestamp is too far in the future"
    ELSE IF rule = "temperature" THEN "Temperature " \o FloatText(Val(event.temperature)) \o " out of valid range"
    ELSE IF rule = "humidity" THEN "Humidity " \o FloatText(Val(event.humidity)) \o " out of valid range"
    ELSE IF rule = "pressure" THEN "Pressure " \o FloatText(Val(event.pressure)) \o " out of valid range"
    ELSE IF rule = "battery_level" THEN "Battery level " \o FloatText(Val(event.battery_level)) \o " out of valid range"
    ELSE IF rule = "latitude" THEN "Invalid latitude " \o FloatText(Val(event.location_lat))
    ELSE "Invalid longitude " \o FloatText(Val(event.location_lon))

\* The result in validation is derived from the rules the parsed event
\* violates: FAIL iff there is one, WARNING iff there is none and there
\* is a warning, PASS otherwise; error_count is their number; the message
\* is the texts of the violated rules joined by "; " and lacks none.
StatusFromRules ==
    LET violated == ViolatedRules(parsed.event, UtcNow)
        texts == {validation.errors[i] : i \in 1..Len(validation.errors)}
    IN /\ validation.status = "FAIL" <=> violated # {}
       /\ validation.status = "WARNING" <=> (violated = {} /\ validation.warnings # <<>>)
       /\ validation.status = "PASS" <=> (violated = {} /\ validation.warnings = <<>>)
       /\ validation.error_count = Cardinality(violated)
       /\ Len(validation.errors) = Cardinality(violated)
       /\ texts = {RuleText(rule, parsed.event) : rule \in violated}
       /\ violated # {} => validation.message = Join(validation.errors)

\* C20: for every parsed event validate_event returns a result, and the
\* result is derived from all the rules the event violates; a value equal
\* to a bound of its range violates no rule.
C20_StatusFromRules ==
    (step \in {"write", "end"} /\ parsed.ok) =>
        /\ ~validation.raised
        /\ StatusFromRules

\* --------------------------------------------------------------- C21

\* The event violates no rule but, possibly, the one on its time.
OtherFieldsValid(event) == ViolatedRules(event, UtcNow) \ {"future"} = {}

\* The instant of an event time, in minutes of UTC.
Instant(event) == event.time.wall - event.time.off

\* The result in validation follows the two limits on the time: FAIL
\* naming the future iff the time is more than 5 minutes after now,
\* WARNING iff it is more than 30 days before now, PASS iff it is between
\* the two, each limit included.
StatusFromTime ==
    LET t == Instant(parsed.event)
    IN /\ (validation.status = "FAIL" /\ validation.message = "Timestamp is too far in the future")
          <=> t > UtcNow + FutureToleranceMinutes
       /\ validation.status = "FAIL" <=> t > UtcNow + FutureToleranceMinutes
       /\ validation.status = "WARNING" <=> t < UtcNow - StaleMinutes
       /\ validation.status = "PASS"
          <=> (UtcNow - StaleMinutes <= t /\ t <= UtcNow + FutureToleranceMinutes)

\* C21: for every parsed event whose other fields are valid,
\* validate_event returns a result, and the result follows the two limits
\* on the event time.
C21_TimeLimits ==
    (step \in {"write", "end"} /\ parsed.ok /\ OtherFieldsValid(parsed.event)) =>
        /\ ~validation.raised
        /\ StatusFromTime

\* --------------------------------------------------------------- C22

RECURSIVE SumValues(_)
\* The sum of the values of a function with a finite domain.
SumValues(f) ==
    IF DOMAIN f = {} THEN 0
    ELSE LET k == CHOOSE x \in DOMAIN f : TRUE
         IN f[k] + SumValues([x \in DOMAIN f \ {k} |-> f[x]])

\* The events of the list whose own validate_event status is FAIL.
FailingEvents ==
    {i \in 1..Len(events) : validate_event(events[i], UtcNow).status = "FAIL"}

\* validate_batch has been called on the list.
BatchValidated == batch_validation # NoBatchValidation

\* C22: validate_batch over n events of which f have status FAIL returns
\* a result with status FAIL iff 10 f > n, WARNING iff 20 f > n and
\* 10 f <= n, PASS otherwise; record_count is n, error_count is f, the
\* counts per device add up to f, and the empty list has rate 0 and
\* status PASS.
C22_BatchStatusFromRate ==
    BatchValidated =>
        LET n == Len(events)
            f == Cardinality(FailingEvents)
        IN /\ ~batch_validation.raised
           /\ batch_validation.status = "FAIL" <=> 10 * f > n
           /\ batch_validation.status = "WARNING" <=> (20 * f > n /\ 10 * f <= n)
           /\ batch_validation.status = "PASS" <=> 20 * f <= n
           /\ batch_validation.record_count = n
           /\ batch_validation.error_count = f
           /\ SumValues(batch_validation.device_errors) = f
           /\ n = 0 => (batch_validation.status = "PASS" /\ batch_validation.error_rate[1] = 0)

\* --------------------------------------------------------------- C23

\* The positions in batch b of the records with status PASS.
PassRecords(b) == {j \in 1..Len(source[b]) : StatusOf(source[b][j]) = "PASS"}

\* The positions in batch b of the rows of a list.
PositionsOf(rows, b) == {rows[i].pos : i \in {k \in 1..Len(rows) : rows[k].batch = b}}

\* More than 10% of the records of batch b have status FAIL.
HighErrorRate(b) ==
    10 * Cardinality({j \in 1..Len(source[b]) : StatusOf(source[b][j]) = "FAIL"}) > Len(source[b])

\* C23: whatever the error rate of a batch, once process_batch has
\* returned for it every record of it with status PASS has been handed to
\* both sinks, and the records handed to each sink are exactly its
\* records with status PASS; past the loop the accepted list holds exactly
\* those records.
C23_ErrorRateDoesNotGate ==
    /\ \A b \in 1..Len(results) :
         /\ \A j \in PassRecords(b) : HandedTo(db_calls, b, j) /\ HandedTo(lake_calls, b, j)
         /\ \A k \in CallsFor(db_calls, b) : PositionsOf(db_calls[k].events, b) = PassRecords(b)
         /\ \A k \in CallsFor(lake_calls, b) : PositionsOf(lake_calls[k].events, b) = PassRecords(b)
    /\ pc \in {"db", "lake", "ret"} => PositionsOf(processed_events, taken) = PassRecords(taken)

\* A batch with a FAIL record, so with an error rate above 10%, has
\* finished, and its PASS record is in the table and in a lake file.
C23_Witness ==
    \E b \in 1..Len(results) :
        /\ HighErrorRate(b)
        /\ \E j \in PassRecords(b) :
             /\ HandedTo(db_calls, b, j)
             /\ HandedTo(lake_calls, b, j)
             /\ InList(telemetry, b, j)
             /\ \E f \in 1..Len(lake_files) : InList(lake_files[f].rows, b, j)

\* --------------------------------------------------------------- C24

\* The persist step of batch b is over: both sinks have been called for
\* it, or the loop is past its last record with nothing accepted.
Persisted(b) ==
    \/ CallsFor(db_calls, b) # {} /\ CallsFor(lake_calls, b) # {}
    \/ Finished(b) /\ results[b][1] = 0
    \/ b = taken /\ pc = "ret" /\ processed_events = <<>>

\* C24 as stated: a dead letter line of a batch is in the file only after
\* the persist step of that batch, and each sink is called at most once
\* for a batch.
C24_DeadLetterAfterPersist ==
    /\ \A k \in 1..Len(dlq) : dlq[k].batch > 0 => Persisted(dlq[k].batch)
    /\ \A b \in 1..taken :
         /\ Cardinality(CallsFor(db_calls, b)) <= 1
         /\ Cardinality(CallsFor(lake_calls, b)) <= 1

\* At every sink call of a batch each rejected record of the batch has
\* its dead letter line already, and each sink is called at most once
\* for a batch.
RejectedBeforePersist ==
    /\ \A b \in 1..taken :
         (CallsFor(db_calls, b) # {} \/ CallsFor(lake_calls, b) # {}) =>
             \A j \in 1..Len(source[b]) : j \in PassRecords(b) \/ DlqLines(b, j) # {}
    /\ \A b \in 1..taken :
         /\ Cardinality(CallsFor(db_calls, b)) <= 1
         /\ Cardinality(CallsFor(lake_calls, b)) <= 1
    /\ Len(results) <= taken

\* A step that appends a dead letter line is made in the loop, before
\* either sink is called for the batch, and a step that calls a sink
\* appends no line.
AppendsInLoop ==
    /\ dlq' # dlq =>
         /\ pc = "dlq"
         /\ CallsFor(db_calls, taken) = {}
         /\ CallsFor(lake_calls, taken) = {}
    /\ (db_calls' # db_calls \/ lake_calls' # lake_calls) => dlq' = dlq

\* C24 as amended: a rejected record is appended to the dead letter log
\* at its own turn in the loop, so before the persist step of its batch;
\* the persist step follows the whole loop, once per batch, and appends
\* nothing to the log.
C24_DeadLetterBeforePersist ==
    []RejectedBeforePersist /\ [][AppendsInLoop]_vars

\* The loop of a batch is over and the persist step is about to start:
\* the first record of the batch has its dead letter line and a later
\* record is accepted.
C24_Witness ==
    /\ pc = "db"
    /\ DlqLines(taken, 1) # {}
    /\ InList(processed_events, taken, 2)
    /\ CallsFor(db_calls, taken) = {}

\* --------------------------------------------------------------- C25

\* Every record of the batch of a sink call was classified before the
\* call: it is in the list of the call or has a dead letter line.
CalledAfterLoop(calls) ==
    \A k \in 1..Len(calls) :
        \A j \in 1..Len(source[calls[k].batch]) :
            \/ InList(calls[k].events, calls[k].batch, j)
            \/ DlqLines(calls[k].batch, j) # {}

\* No sink was called for a batch without a PASS record, and no row of
\* such a batch is in the table or in a lake file.
NoPassNoCall ==
    \A b \in 1..taken :
        PassRecords(b) = {} =>
            /\ CallsFor(db_calls, b) = {}
            /\ CallsFor(lake_calls, b) = {}
            /\ PositionsOf(telemetry, b) = {}
            /\ \A f \in 1..Len(lake_files) : PositionsOf(lake_files[f].rows, b) = {}

\* A step made for a batch without a PASS record leaves both stores as
\* they are.
StoresUntouched ==
    (taken' > 0 /\ PassRecords(taken') = {}) =>
        /\ telemetry' = telemetry
        /\ lake_files' = lake_files
        /\ db_calls' = db_calls
        /\ lake_calls' = lake_calls

\* C25: a sink is called for a batch only after every record of the
\* batch has been parsed, validated and classified, and a batch in which
\* no record has status PASS calls neither sink and leaves both stores
\* unchanged.
C25_SinksAfterLoopOnly ==
    [](CalledAfterLoop(db_calls) /\ CalledAfterLoop(lake_calls) /\ NoPassNoCall)
    /\ [][StoresUntouched]_vars

\* After a batch that was stored, a batch without a PASS record has
\* finished: its records are dead-lettered and the stores hold the rows
\* of the first batch only.
C25_Witness ==
    /\ Len(results) = 2
    /\ PassRecords(2) = {}
    /\ DlqLines(2, 1) # {}
    /\ telemetry # <<>>
    /\ lake_files # <<>>
    /\ CallsFor(db_calls, 2) = {}
    /\ CallsFor(lake_calls, 2) = {}

\* --------------------------------------------------------------- C26

\* The batches of which the loop has left at least one record behind.
ClassifiedBatches == {b \in 1..taken : \E j \in 1..Len(source[b]) : Passed(b, j)}

\* C26: when the run has ended, however it ended, total_failed is the
\* number of dead letter lines the run has appended and batch_count the
\* number of batches with a classified record.
C26_ReportMatchesRun ==
    pc = "done" =>
        /\ total_failed = Len(OwnLines)
        /\ batch_count = Cardinality(ClassifiedBatches)

\* --------------------------------------------------------------- C27

\* Record j of batch b is a row of the table or of a lake file.
Stored(b, j) ==
    \/ InList(telemetry, b, j)
    \/ \E f \in 1..Len(lake_files) : InList(lake_files[f].rows, b, j)

\* C27: when the run has ended, every record of every batch taken from
\* the source has a dead letter line or is stored in the table or in a
\* lake file, whatever the sinks returned.
C27_NoRecordVanishes ==
    pc = "done" =>
        \A r \in Records :
            r[1] <= taken => (DlqLines(r[1], r[2]) # {} \/ Stored(r[1], r[2]))

\* --------------------------------------------------------------- C28

\* The rows of a list are in source order: a later row is of a later
\* batch or of a later position in the same batch.
InSourceOrder(rows) ==
    \A k \in 1..Len(rows) :
        \A m \in (k + 1)..Len(rows) :
            \/ rows[k].batch < rows[m].batch
            \/ rows[k].batch = rows[m].batch /\ rows[k].pos < rows[m].pos

\* The calls of a sink are made batch after batch, each with its events
\* in source order.
CallsInSourceOrder(calls) ==
    /\ \A k \in 1..Len(calls) : InSourceOrder(calls[k].events)
    /\ \A k \in 1..Len(calls) : \A m \in (k + 1)..Len(calls) : calls[k].batch < calls[m].batch

\* C28: the dead letter lines of the run are in the order of their
\* records in the source, within a batch and across batches, and the
\* accepted events are handed to each sink, and are in the table and in
\* each lake file, in source order.
C28_SourceOrderKept ==
    /\ InSourceOrder(OwnLines)
    /\ InSourceOrder(processed_events)
    /\ CallsInSourceOrder(db_calls)
    /\ CallsInSourceOrder(lake_calls)
    /\ InSourceOrder(telemetry)
    /\ \A f \in 1..Len(lake_files) : InSourceOrder(lake_files[f].rows)

\* After the line of an earlier run, two rejected records of one batch
\* and one of the next have their lines in that order.
C28_Witness ==
    /\ Len(dlq) = 4
    /\ Len(OwnLines) = 3
    /\ OwnLines[1].batch = 1
    /\ OwnLines[2].batch = 1
    /\ OwnLines[1].pos < OwnLines[2].pos
    /\ OwnLines[3].batch = 2
    /\ pc = "done"

\* --------------------------------------------------------------- C29

\* The limit has stopped the run.
LimitStopped ==
    /\ pc = "done"
    /\ ~interrupted
    /\ stream_error = ""
    /\ LimitReached(max_batches, batch_count)

\* C29: every run over a finite source reaches the final report of
\* process_stream, however it ends, and a run the limit has stopped has
\* taken no batch from the source beyond those it has processed.
C29_RunTerminates ==
    /\ <>(pc = "done")
    /\ [](LimitStopped => (taken = batch_count /\ Len(results) = taken))

\* The limit has stopped a run with batches left in the source, after a
\* batch with a rejected record and a failed sink write.
C29_Witness ==
    /\ LimitStopped
    /\ taken < Len(source)
    /\ taken = batch_count
    /\ total_failed > 0
    /\ \E k \in 1..Len(lake_calls) : ~lake_calls[k].ok

\* --------------------------------------------------------------- C30

\* The files of the call that hold the event at place i of the list.
FilesHolding(i) ==
    {f \in 1..Len(written.files) :
        \E k \in 1..Len(written.files[f].rows) : written.files[f].rows[k].pos = i}

\* Every event of the list is once in exactly one file of the call, and
\* the files hold nothing else.
WrittenOnce ==
    /\ \A i \in 1..Len(events) :
         /\ Cardinality(FilesHolding(i)) = 1
         /\ \A f \in FilesHolding(i) :
              /\ TimesIn(written.files[f].rows, 0, i) = 1
              /\ \A k \in 1..Len(written.files[f].rows) :
                   written.files[f].rows[k].pos = i => written.files[f].rows[k].event = events[i]
    /\ \A f \in 1..Len(written.files) :
         \A k \in 1..Len(written.files[f].rows) : written.files[f].rows[k].pos \in 1..Len(events)

\* C30: when write_telemetry_batch has returned True every event of the
\* list is in exactly one partition file of the call, and when it has
\* returned False the call has created no partition file.
C30_AllOrNothingWrite ==
    (step = "end" /\ pc = "off") =>
        /\ written.ok => WrittenOnce
        /\ ~written.ok => written.files = <<>>

====
